---------------------------- MODULE Spec2Model ----------------------------
(***************************************************************************)
(* A model of the SQL CE driver of sqlboiler                               *)
(* (drivers/sqlboiler-sqlce/driver/sqlce.go).                              *)
(*                                                                         *)
(* Three specifications share the module:                                  *)
(*   SpecAssemble   - SQLCEDriver.Assemble, statement by statement, with   *)
(*                    Go's defer / panic / recover semantics;              *)
(*   SpecIntrospect - TableNames, Columns, PrimaryKeyInfo, ForeignKeyInfo  *)
(*                    run against a small catalog, row by row;             *)
(*   SpecTranslate  - TranslateColumnType applied to a column.             *)
(***************************************************************************)
EXTENDS Naturals, Sequences, FiniteSets, TLC

VARIABLES
    \* ---- Assemble (sqlce.go:55-105) ----
    config,      \* drivers.Config: the keys Assemble reads
    pc,          \* position inside Assemble
    connStr,     \* m.connStr
    conn,        \* m.conn: "nil", "open", or "closed" once Close was called on it
    opens,       \* number of successful sql.Open calls
    closes,      \* number of m.conn.Close calls
    dbinfo,      \* named result dbinfo: NilDBInfo or a DBInfo
    err,         \* named result err: "nil" or an error value
    panicking,   \* the panic in flight: NoPanic or [isError, val]
    defers,      \* deferred calls, most recent first
    tablesRes,   \* what drivers.Tables did: "none","ok","err","panic"
    closeRes,    \* what Close did: "none","ok","err","panic"
    outcome,     \* "running", "returned" or "escaped" (a panic left Assemble)
    \* ---- the introspection calls (sqlce.go:110-342) ----
    catalog,     \* the database's information_schema
    op,          \* the call in progress, or "idle"
    args,        \* its arguments: [table, whitelist, blacklist]
    query,       \* the filter clause and arguments it built
    rows,        \* the rows its cursor has not delivered yet
    acc,         \* the slice it is appending to
    pkName,      \* pkey.Name inside PrimaryKeyInfo
    ret,         \* what the last call returned
    openCursors, \* result cursors (sql.Rows) that are open
    \* ---- TranslateColumnType (sqlce.go:347-419) ----
    colIn,       \* the column passed in
    colOut,      \* the column returned
    translated   \* whether TranslateColumnType has run

asmVars == <<config, pc, connStr, conn, opens, closes, dbinfo, err, panicking,
             defers, tablesRes, closeRes, outcome>>

intVars == <<catalog, op, args, query, rows, acc, pkName, ret, openCursors>>

trVars == <<colIn, colOut, translated>>

vars == <<asmVars, intVars, trVars>>

-----------------------------------------------------------------------------
(* Assemble *)

NoPanic == [isError |-> FALSE, val |-> "none"]

\* A nil *drivers.DBInfo, and the DBInfo of lines 83-98 (Tables not assigned).
NilDBInfo == [isNil |-> TRUE, Schema |-> "", Tables |-> "unset"]
NewDBInfo(schema) == [isNil |-> FALSE, Schema |-> schema, Tables |-> "unset"]

\* The panic values the callees can raise: an error value (what MustString
\* and the runtime raise) or a value that is no error (a string).  No callee
\* raises panic(nil).
PanicValues(where) ==
    { [isError |-> TRUE,  val |-> "error@" \o where],
      [isError |-> FALSE, val |-> "string@" \o where] }

\* The configurations: ConfigDBName may be missing, of the wrong type or a
\* string; ConfigHost and ConfigSchema are optional.
Configs ==
    [ dbname : {"absent", "notstring", "a.sdf", "b.sdf"},
      host   : {"absent", "Microsoft.SQLSERVER.CE.OLEDB.4.0"},
      schema : {"absent", "sales"} ]

\* config.DefaultString(key, def)
DefaultString(v, def) == IF v = "absent" THEN def ELSE v

\* config.MustString panics unless the key holds a string.
MustStringPanics(v) == v \in {"absent", "notstring"}

InitAssemble ==
    /\ config \in Configs
    /\ pc = "config"
    /\ connStr = ""
    /\ conn = "nil"
    /\ opens = 0
    /\ closes = 0
    /\ dbinfo = NilDBInfo
    /\ err = "nil"
    /\ panicking = NoPanic
    /\ defers = <<"recover">>       \* the defer of lines 56-61
    /\ tablesRes = "none"
    /\ closeRes = "none"
    /\ outcome = "running"

\* Lines 63-70: the configuration lookups and the connection string.
ReadConfig ==
    /\ pc = "config"
    /\ UNCHANGED <<intVars, trVars>>
    /\ IF MustStringPanics(config.dbname)
         THEN /\ panicking' = [isError |-> TRUE, val |-> "error@MustString"]
              /\ pc' = "unwind"
              /\ UNCHANGED connStr
         ELSE /\ connStr' = "Provider=" \o DefaultString(config.host, "")
                               \o ";Data Source=" \o config.dbname
              /\ pc' = "open"
              /\ UNCHANGED panicking
    /\ UNCHANGED <<config, conn, opens, closes, dbinfo, err, defers,
                   tablesRes, closeRes, outcome>>

\* A faulty variant of DeferClose: the close is not deferred.
DeferCloseMissing(ds) == ds

\* Lines 76-81: defer func() { ... m.conn.Close() ... }()
DeferClose(ds) == <<"close">> \o ds

\* Lines 71-81: sql.Open, the early return on failure, the deferred close.
Open ==
    /\ pc = "open"
    /\ UNCHANGED <<intVars, trVars>>
    /\ \E ok \in BOOLEAN :
         IF ok
           THEN /\ conn' = "open"
                /\ opens' = opens + 1
                /\ err' = "nil"
                /\ defers' = DeferClose(defers)
                /\ pc' = "build"
                /\ UNCHANGED dbinfo
           ELSE /\ err' = "wrap(open)"      \* return nil, errors.Wrap(err, ...)
                /\ dbinfo' = NilDBInfo
                /\ pc' = "unwind"
                /\ UNCHANGED <<conn, opens, defers>>
    /\ UNCHANGED <<config, connStr, closes, panicking, tablesRes, closeRes, outcome>>

\* Lines 83-98: dbinfo = &drivers.DBInfo{Schema, Dialect}; Tables is not set yet.
Build ==
    /\ pc = "build"
    /\ UNCHANGED <<intVars, trVars>>
    /\ dbinfo' = NewDBInfo(DefaultString(config.schema, "dbo"))
    /\ pc' = "tables"
    /\ UNCHANGED <<config, connStr, conn, opens, closes, err, panicking, defers,
                   tablesRes, closeRes, outcome>>

\* Lines 99-104: drivers.Tables returns tables, returns an error, or panics.
Tables ==
    /\ pc = "tables"
    /\ UNCHANGED <<intVars, trVars>>
    /\ \/ /\ tablesRes' = "ok"
          /\ dbinfo' = [dbinfo EXCEPT !.Tables = "assigned"]  \* dbinfo.Tables, err = tables, nil
          /\ err' = "nil"                   \* return dbinfo, err
          /\ UNCHANGED panicking
       \/ /\ tablesRes' = "err"
          /\ err' = "tables"
          /\ dbinfo' = NilDBInfo            \* return nil, err
          /\ UNCHANGED panicking
       \/ /\ tablesRes' = "panic"
          /\ panicking' \in PanicValues("Tables")
          /\ UNCHANGED <<dbinfo, err>>      \* the assignment never happens
    /\ pc' = "unwind"
    /\ UNCHANGED <<config, connStr, conn, opens, closes, defers, closeRes, outcome>>

\* Faulty variants of CloseDefer: the close error is dropped; the snapshot is kept.
CloseDeferIgnoresError(e, d, er) == [dbinfo |-> d, err |-> er]
CloseDeferKeepsSnapshot(e, d, er) ==
    IF e # "nil" THEN [dbinfo |-> d, err |-> e] ELSE [dbinfo |-> d, err |-> er]

\* Lines 77-80: if e := m.conn.Close(); e != nil { dbinfo = nil; err = e }
CloseDefer(e, d, er) ==
    IF e # "nil" THEN [dbinfo |-> NilDBInfo, err |-> e] ELSE [dbinfo |-> d, err |-> er]

\* Lines 76-81 run as a deferred call: Close succeeds, fails or panics.  A
\* panic raised here replaces the one in flight.
RunCloseDefer ==
    /\ pc = "unwind"
    /\ UNCHANGED <<intVars, trVars>>
    /\ defers # <<>>
    /\ Head(defers) = "close"
    /\ defers' = Tail(defers)
    /\ closes' = closes + 1
    /\ conn' = "closed"
    /\ \/ \E e \in {"nil", "close"} :
            /\ closeRes' = IF e = "nil" THEN "ok" ELSE "err"
            /\ dbinfo' = CloseDefer(e, dbinfo, err).dbinfo
            /\ err' = CloseDefer(e, dbinfo, err).err
            /\ UNCHANGED panicking
       \/ /\ closeRes' = "panic"
          /\ panicking' \in PanicValues("Close")
          /\ UNCHANGED <<dbinfo, err>>
    /\ UNCHANGED <<config, pc, connStr, opens, tablesRes, outcome>>

\* Line 57: r := recover(); r != nil && err == nil
RecoverTakes(r, er) == r # NoPanic /\ er = "nil"

\* Lines 56-61 run as a deferred call.  recover() ends the panic in flight;
\* r.(error) on a value that is no error raises a new panic inside the
\* deferred call, after dbinfo = nil, with no deferred call left to stop it.
RunRecoverDefer ==
    /\ pc = "unwind"
    /\ UNCHANGED <<intVars, trVars>>
    /\ defers # <<>>
    /\ Head(defers) = "recover"
    /\ defers' = Tail(defers)
    /\ IF RecoverTakes(panicking, err)
         THEN /\ dbinfo' = NilDBInfo
              /\ IF panicking.isError
                   THEN /\ err' = panicking.val
                        /\ panicking' = NoPanic
                   ELSE /\ panicking' = [isError |-> TRUE, val |-> "TypeAssertionError"]
                        /\ UNCHANGED err
         ELSE /\ panicking' = NoPanic
              /\ UNCHANGED <<dbinfo, err>>
    /\ UNCHANGED <<config, pc, connStr, conn, opens, closes, tablesRes, closeRes, outcome>>

\* Every deferred call has run: Assemble returns (dbinfo, err), or the panic
\* still in flight leaves Assemble.
Finish ==
    /\ pc = "unwind"
    /\ UNCHANGED <<intVars, trVars>>
    /\ defers = <<>>
    /\ pc' = "done"
    /\ outcome' = IF panicking = NoPanic THEN "returned" ELSE "escaped"
    /\ UNCHANGED <<config, connStr, conn, opens, closes, dbinfo, err, panicking,
                   defers, tablesRes, closeRes>>

NextAssemble ==
    \/ ReadConfig
    \/ Open
    \/ Build
    \/ Tables
    \/ RunCloseDefer
    \/ RunRecoverDefer
    \/ Finish

-----------------------------------------------------------------------------
(* The catalog the introspection queries run against *)

MaxFkCols == 2      \* column pairs of the foreign key orders -> users
MaxList == 2        \* entries of a whitelist or blacklist
MaxLeaked == 1      \* cursors left open before ForeignKeyInfo is no longer called

\* A nullable catalog value (also Go's *string): NULL or a value.
Null == [isNull |-> TRUE, v |-> ""]
Val(x) == [isNull |-> FALSE, v |-> x]

\* The raw types, defaults and flags of the columns of table events: one
\* column for every combination.
EventTypes == <<"timestamp", "rowversion", "TIMESTAMP", "int", "nvarchar">>
EventDefaults == <<Null, Val("NULL"), Val("getdate()")>>
YesNo == <<"NO", "YES">>
AutoInc == <<Null, Val("1")>>

EventOrdinal(i, j, n, a) == ((((i - 1) * 3 + (j - 1)) * 2 + (n - 1)) * 2 + (a - 1)) + 1

EventColumns ==
    { [ table_name |-> "events",
        column_name |-> "c" \o ToString(EventOrdinal(i, j, n, a)),
        ordinal_position |-> EventOrdinal(i, j, n, a),
        data_type |-> EventTypes[i],
        character_maximum_length |-> IF EventTypes[i] = "nvarchar" THEN Val("50") ELSE Null,
        column_default |-> EventDefaults[j],
        is_nullable |-> YesNo[n],
        autoinc_next |-> AutoInc[a] ] :
      i \in 1..Len(EventTypes), j \in 1..Len(EventDefaults), n \in 1..2, a \in 1..2 }

KeyCol(i) == "k" \o ToString(i)
RefCol(i) == "user_k" \o ToString(i)

IntColumn(t, c, pos, nullable, autoinc) ==
    [ table_name |-> t, column_name |-> c, ordinal_position |-> pos,
      data_type |-> "int", character_maximum_length |-> Null,
      column_default |-> Null, is_nullable |-> nullable, autoinc_next |-> autoinc ]

\* The catalog of a database with tables users (primary key k1..kk), orders
\* (primary key id, a foreign key of k column pairs to users), events (no
\* primary key) and one system table.
Catalog(k) ==
    [ tables |->
        { [table_name |-> "users",      table_type |-> "TABLE"],
          [table_name |-> "orders",     table_type |-> "TABLE"],
          [table_name |-> "events",     table_type |-> "TABLE"],
          [table_name |-> "__sysfiles", table_type |-> "SYSTEM TABLE"] },
      columns |->
        { IntColumn("users", KeyCol(i), i, "NO", IF i = 1 THEN Val("1") ELSE Null) : i \in 1..k }
        \cup { IntColumn("orders", "id", 1, "NO", Val("1")) }
        \cup { IntColumn("orders", RefCol(i), i + 1, "YES", Null) : i \in 1..k }
        \cup EventColumns,
      table_constraints |->
        { [constraint_name |-> "PK_users",  table_name |-> "users",  constraint_type |-> "PRIMARY KEY"],
          [constraint_name |-> "PK_orders", table_name |-> "orders", constraint_type |-> "PRIMARY KEY"],
          [constraint_name |-> "FK_orders_users", table_name |-> "orders", constraint_type |-> "FOREIGN KEY"] },
      key_column_usage |->
        { [constraint_name |-> "PK_users", table_name |-> "users",
           column_name |-> KeyCol(i), ordinal_position |-> i] : i \in 1..k }
        \cup { [constraint_name |-> "PK_orders", table_name |-> "orders",
                column_name |-> "id", ordinal_position |-> 1] }
        \cup { [constraint_name |-> "FK_orders_users", table_name |-> "orders",
                column_name |-> RefCol(i), ordinal_position |-> i] : i \in 1..k },
      referential_constraints |->
        { [constraint_name |-> "FK_orders_users", unique_constraint_name |-> "PK_users"] } ]

Catalogs == { Catalog(k) : k \in 1..MaxFkCols }

\* The names ORDER BY compares, in ascending order.
Collation ==
    <<"FK_orders_users", "PK_orders", "PK_users", "__sysfiles", "events", "id">>
    \o [i \in 1..MaxFkCols |-> KeyCol(i)]
    \o <<"orders">>
    \o [i \in 1..MaxFkCols |-> RefCol(i)]
    \o <<"users">>

Rank(s) == CHOOSE i \in 1..Len(Collation) : Collation[i] = s

Range(f) == { f[i] : i \in DOMAIN f }

\* The elements of S as a sequence in ascending order of key (ORDER BY).
RECURSIVE OrderBy(_, _)
OrderBy(S, key) ==
    IF S = {} THEN <<>>
    ELSE LET m == CHOOSE x \in S : \A y \in S : key[x] <= key[y]
         IN  <<m>> \o OrderBy(S \ {m}, key)

-----------------------------------------------------------------------------
(* The filter engine: whitelist and blacklist *)

\* A list entry after splitting on ".": <<table>> or <<table, column>>.
Entries == { <<"orders">>, <<"users", KeyCol(1)>> }

Lists == UNION { [1..n -> Entries] : n \in 0..MaxList }

TableArgs == {"users", "orders", "events"}

\* drivers.TablesFromList: a bare entry names a table, a scoped entry names
\* the table of its table portion.
TablesFromList(list) == [i \in 1..Len(list) |-> list[i][1]]

\* drivers.ColumnsFromList: an unscoped entry applies to every table, a
\* scoped entry to the table of its table portion.
RECURSIVE ColumnsFromList(_, _)
ColumnsFromList(list, tablename) ==
    IF list = <<>> THEN <<>>
    ELSE LET e == Head(list)
             rest == ColumnsFromList(Tail(list), tablename)
         IN  IF Len(e) = 1 THEN <<e[1]>> \o rest
             ELSE IF e[1] = tablename THEN <<e[2]>> \o rest
             ELSE rest

NoFilter == [clause |-> "", placeholders |-> 0, args |-> <<>>]

\* A faulty variant of TableNamesQuery: the blacklist branch is not an else branch.
TableNamesQueryBothLists(whitelist, blacklist) ==
    IF Len(blacklist) > 0 /\ Len(TablesFromList(blacklist)) > 0
      THEN [clause |-> " AND table_name not IN",
            placeholders |-> Len(TablesFromList(blacklist)),
            args |-> TablesFromList(blacklist)]
      ELSE IF Len(whitelist) > 0 /\ Len(TablesFromList(whitelist)) > 0
        THEN [clause |-> " AND table_name IN",
              placeholders |-> Len(TablesFromList(whitelist)),
              args |-> TablesFromList(whitelist)]
        ELSE NoFilter

\* A faulty variant of TableNamesQuery: the whitelist excludes instead of includes.
TableNamesQueryExcludes(whitelist, blacklist) ==
    IF Len(whitelist) > 0
      THEN [clause |-> " AND table_name not IN",
            placeholders |-> Len(TablesFromList(whitelist)),
            args |-> TablesFromList(whitelist)]
      ELSE NoFilter

\* TableNames, lines 118-135: the clause appended to the query and its
\* arguments.
TableNamesQuery(whitelist, blacklist) ==
    IF Len(whitelist) > 0
      THEN LET tables == TablesFromList(whitelist)
           IN  IF Len(tables) > 0
                 THEN [clause |-> " AND table_name IN",
                       placeholders |-> Len(tables), args |-> tables]
                 ELSE NoFilter
      ELSE IF Len(blacklist) > 0
        THEN LET tables == TablesFromList(blacklist)
             IN  IF Len(tables) > 0
                   THEN [clause |-> " AND table_name not IN",
                         placeholders |-> Len(tables), args |-> tables]
                   ELSE NoFilter
        ELSE NoFilter

\* Columns, lines 163 and 194-210: args starts with the table name.
ColumnsQuery(tableName, whitelist, blacklist) ==
    IF Len(whitelist) > 0
      THEN LET cols == ColumnsFromList(whitelist, tableName)
           IN  IF Len(cols) > 0
                 THEN [clause |-> " and c.column_name in",
                       placeholders |-> Len(cols), args |-> <<tableName>> \o cols]
                 ELSE [NoFilter EXCEPT !.args = <<tableName>>]
      ELSE IF Len(blacklist) > 0
        THEN LET cols == ColumnsFromList(blacklist, tableName)
             IN  IF Len(cols) > 0
                   THEN [clause |-> " and c.column_name not in",
                         placeholders |-> Len(cols), args |-> <<tableName>> \o cols]
                   ELSE [NoFilter EXCEPT !.args = <<tableName>>]
        ELSE [NoFilter EXCEPT !.args = <<tableName>>]

-----------------------------------------------------------------------------
(* What the database answers *)

\* WHERE table_type = 'TABLE' [AND table_name [not] IN (?...)] ORDER BY table_name
TableNamesRows(cat, q) ==
    LET hit == { t.table_name : t \in
                   { t \in cat.tables :
                       /\ t.table_type = "TABLE"
                       /\ q.clause = " AND table_name IN" => t.table_name \in Range(q.args)
                       /\ q.clause = " AND table_name not IN" => t.table_name \notin Range(q.args) } }
    IN  OrderBy(hit, [n \in hit |-> Rank(n)])

\* The is_unique subquery of lines 176-186.
IsUnique(cat, c) ==
    \E tc \in cat.table_constraints : \E kcu \in cat.key_column_usage :
        /\ tc.constraint_name = kcu.constraint_name
        /\ tc.table_name = kcu.table_name
        /\ c.column_name = kcu.column_name
        /\ tc.table_name = c.table_name
        /\ tc.constraint_type \in {"PRIMARY KEY", "UNIQUE"}

\* The select list of lines 165-190 for one row of information_schema.columns.
ColumnsSelect(cat, c) ==
    [ colName |-> c.column_name,
      colFullType |-> IF c.character_maximum_length.isNull THEN c.data_type
                      ELSE c.data_type \o "(" \o c.character_maximum_length.v \o ")",
      colType |-> c.data_type,
      defaultValue |-> c.column_default,
      nullable |-> (c.is_nullable = "YES"),
      unique |-> IsUnique(cat, c),
      identity |-> ~c.autoinc_next.isNull,
      ordinal |-> c.ordinal_position ]

\* WHERE table_name = ? [and c.column_name [not] in (...)] ORDER BY ordinal_position
ColumnsRows(cat, q) ==
    LET named == Range(Tail(q.args))
        hit == { ColumnsSelect(cat, c) : c \in
                   { c \in cat.columns :
                       /\ c.table_name = Head(q.args)
                       /\ q.clause = " and c.column_name in" => c.column_name \in named
                       /\ q.clause = " and c.column_name not in" => c.column_name \notin named } }
    IN  OrderBy(hit, [r \in hit |-> r.ordinal])

\* Lines 255-258: the primary-key constraint of the table.
PrimaryKeyRows(cat, tableName) ==
    LET hit == { tc.constraint_name : tc \in
                   { tc \in cat.table_constraints :
                       tc.table_name = tableName /\ tc.constraint_type = "PRIMARY KEY" } }
    IN  OrderBy(hit, [n \in hit |-> Rank(n)])

\* Lines 268-272: the columns of the constraint, ORDER BY ordinal_position.
PrimaryKeyColumnsRows(cat, tableName, name) ==
    LET hit == { kcu \in cat.key_column_usage :
                   kcu.table_name = tableName /\ kcu.constraint_name = name }
        sorted == OrderBy(hit, [r \in hit |-> r.ordinal_position])
    IN  [i \in 1..Len(sorted) |-> sorted[i].column_name]

\* Lines 305-316: referential_constraints joined to key_column_usage twice.
ForeignKeyRows(cat, tableName) ==
    LET hit == { [ constraint_name |-> j[1].constraint_name,
                   local_table |-> j[3].table_name,
                   local_column |-> j[3].column_name,
                   foreign_table |-> j[2].table_name,
                   foreign_column |-> j[2].column_name ] : j \in
                   { j \in cat.referential_constraints \X cat.key_column_usage
                             \X cat.key_column_usage :
                       /\ j[2].constraint_name = j[1].unique_constraint_name
                       /\ j[3].constraint_name = j[1].constraint_name
                       /\ j[3].table_name = tableName } }
        b == Len(Collation) + 1
        k(r) == (((Rank(r.constraint_name) * b + Rank(r.local_table)) * b
                    + Rank(r.local_column)) * b + Rank(r.foreign_table)) * b
                    + Rank(r.foreign_column)
    IN  OrderBy(hit, [r \in hit |-> k(r)])

-----------------------------------------------------------------------------
(* TableNames, Columns, PrimaryKeyInfo, ForeignKeyInfo *)

\* Unicode case folding, on the raw types of the catalog.
Fold(s) == IF s = "TIMESTAMP" THEN "timestamp" ELSE s

\* strings.EqualFold
EqualFold(a, b) == Fold(a) = Fold(b)

\* A faulty variant of IsAuto: rowversion is forgotten.
IsAutoTimestampOnly(colType) == EqualFold(colType, "timestamp")

\* Line 228
IsAuto(colType) == EqualFold(colType, "timestamp") \/ EqualFold(colType, "rowversion")

\* Lines 230-243: the drivers.Column built from a scanned row.
ColumnFromRow(r) ==
    [ Name |-> r.colName,
      FullDBType |-> r.colFullType,
      DBType |-> r.colType,
      Nullable |-> r.nullable,
      Unique |-> r.unique,
      AutoGenerated |-> IsAuto(r.colType),
      Default |-> IF ~r.defaultValue.isNull /\ r.defaultValue.v # "NULL"
                    THEN r.defaultValue.v
                    ELSE IF r.identity \/ IsAuto(r.colType) THEN "auto" ELSE "",
      Type |-> "" ]

\* Lines 325-334: the drivers.ForeignKey built from a scanned row.
ForeignKeyFromRow(tableName, r) ==
    [ Table |-> tableName,
      Name |-> r.constraint_name,
      Column |-> r.local_column,
      ForeignTable |-> r.foreign_table,
      ForeignColumn |-> r.foreign_column ]

\* What the loop body appends for a scanned row.
Scanned(o, tableName, r) ==
    CASE o = "Columns" -> ColumnFromRow(r)
      [] o = "ForeignKeyInfo" -> ForeignKeyFromRow(tableName, r)
      [] OTHER -> r

\* Whether the operation holds a deferred rows.Close() (lines 145, 218, 278;
\* ForeignKeyInfo has none).
DefersClose(o) == o \in {"TableNames", "Columns", "PrimaryKeyInfo"}

\* Whether the operation checks rows.Err() after its loop (lines 292, 337).
ChecksRowsErr(o) == o \in {"PrimaryKeyInfo", "ForeignKeyInfo"}

LoopOps == {"TableNames", "Columns", "PrimaryKeyInfo", "ForeignKeyInfo"}

NoArgs == [table |-> "", whitelist |-> <<>>, blacklist |-> <<>>]
NoRet == [op |-> "none", table |-> "", err |-> "nil", isNil |-> TRUE, name |-> "", val |-> <<>>]

Ret(o, e, isNil, v) ==
    [op |-> o, table |-> args.table, err |-> e, isNil |-> isNil, name |-> pkName, val |-> v]

InitIntrospect ==
    /\ catalog \in Catalogs
    /\ op = "idle"
    /\ args = NoArgs
    /\ query = NoFilter
    /\ rows = <<>>
    /\ acc = <<>>
    /\ pkName = ""
    /\ ret = NoRet
    /\ openCursors = 0

\* m.conn.Query of a loop operation: it fails, or a cursor is open.
Issue(o, a, q, result) ==
    /\ op = "idle"
    /\ args' = a
    /\ query' = q
    /\ acc' = <<>>
    /\ pkName' = ""
    /\ \E ok \in BOOLEAN :
         IF ok
           THEN /\ op' = o
                /\ rows' = result
                /\ openCursors' = openCursors + 1
                /\ ret' = NoRet
           ELSE /\ op' = "returned"         \* return nil, err
                /\ rows' = <<>>
                /\ ret' = [op |-> IF o = "PrimaryKeyInfo.row" THEN "PrimaryKeyInfo" ELSE o,
                           table |-> a.table, err |-> "query", isNil |-> TRUE,
                           name |-> "", val |-> <<>>]
                /\ UNCHANGED openCursors
    /\ UNCHANGED catalog
    /\ UNCHANGED <<asmVars, trVars>>

\* TableNames, lines 110-143
CallTableNames ==
    \E w \in Lists, b \in Lists :
        Issue("TableNames", [table |-> "", whitelist |-> w, blacklist |-> b],
              TableNamesQuery(w, b), TableNamesRows(catalog, TableNamesQuery(w, b)))

\* Columns, lines 161-218
CallColumns ==
    \E t \in TableArgs, w \in Lists, b \in Lists :
        Issue("Columns", [table |-> t, whitelist |-> w, blacklist |-> b],
              ColumnsQuery(t, w, b), ColumnsRows(catalog, ColumnsQuery(t, w, b)))

\* PrimaryKeyInfo, line 260: QueryRow opens a cursor unless the query fails;
\* Scan reports the failure.
CallPrimaryKeyInfo ==
    \E t \in TableArgs :
        Issue("PrimaryKeyInfo.row", [NoArgs EXCEPT !.table = t],
              [NoFilter EXCEPT !.args = <<t>>], PrimaryKeyRows(catalog, t))

\* PrimaryKeyInfo, lines 261-278: Row.Scan closes the QueryRow cursor.  No
\* row is "no primary key": return nil, nil.  Otherwise the column query is
\* issued.
PrimaryKeyRowScan ==
    /\ op = "PrimaryKeyInfo.row"
    /\ \/ /\ rows = <<>>                    \* sql.ErrNoRows
          /\ op' = "returned"
          /\ ret' = Ret("PrimaryKeyInfo", "nil", TRUE, <<>>)
          /\ openCursors' = openCursors - 1
          /\ UNCHANGED <<rows, pkName, query>>
       \/ /\ TRUE                          \* Scan fails, or the driver did
          /\ op' = "returned"
          /\ ret' = Ret("PrimaryKeyInfo", "scan", TRUE, <<>>)
          /\ rows' = <<>>
          /\ openCursors' = openCursors - 1
          /\ UNCHANGED <<pkName, query>>
       \/ /\ rows # <<>>                    \* the column query fails
          /\ pkName' = Head(rows)
          /\ query' = [NoFilter EXCEPT !.args = <<args.table, Head(rows)>>]
          /\ op' = "returned"
          /\ ret' = [Ret("PrimaryKeyInfo", "query", TRUE, <<>>) EXCEPT !.name = Head(rows)]
          /\ rows' = <<>>
          /\ openCursors' = openCursors - 1
       \/ /\ rows # <<>>                    \* the column query opens its cursor
          /\ pkName' = Head(rows)
          /\ query' = [NoFilter EXCEPT !.args = <<args.table, Head(rows)>>]
          /\ op' = "PrimaryKeyInfo"
          /\ rows' = PrimaryKeyColumnsRows(catalog, args.table, Head(rows))
          /\ UNCHANGED <<ret, openCursors>>
    /\ UNCHANGED <<catalog, args, acc>>
    /\ UNCHANGED <<asmVars, trVars>>

\* ForeignKeyInfo, lines 302-322
CallForeignKeyInfo ==
    /\ openCursors < MaxLeaked
    /\ \E t \in TableArgs :
        Issue("ForeignKeyInfo", [NoArgs EXCEPT !.table = t],
              [NoFilter EXCEPT !.args = <<t>>], ForeignKeyRows(catalog, t))

\* The cursors open once operation o has returned, n being open before:
\* rows.Next() closed the cursor when it returned false, and a deferred
\* rows.Close() closes it otherwise.
CursorsAtReturn(o, closedByNext, n) ==
    IF closedByNext \/ DefersClose(o) THEN n - 1 ELSE n

\* rows.Next() is true and Scan succeeds: the loop body appends.
ScanRow ==
    /\ op \in LoopOps
    /\ rows # <<>>
    /\ acc' = Append(acc, Scanned(op, args.table, Head(rows)))
    /\ rows' = Tail(rows)
    /\ UNCHANGED <<catalog, op, args, query, pkName, ret, openCursors>>
    /\ UNCHANGED <<asmVars, trVars>>

\* rows.Next() is true and Scan fails: the operation returns the error
\* (lines 148-150, 224-226, 284-287, 329-332).
ScanFails ==
    /\ op \in LoopOps
    /\ rows # <<>>
    /\ ret' = Ret(op, "scan", TRUE, <<>>)
    /\ openCursors' = CursorsAtReturn(op, FALSE, openCursors)
    /\ op' = "returned"
    /\ rows' = <<>>
    /\ acc' = <<>>
    /\ UNCHANGED <<catalog, args, query, pkName>>
    /\ UNCHANGED <<asmVars, trVars>>

\* rows.Next() is false because the driver failed: the cursor is closed;
\* only PrimaryKeyInfo and ForeignKeyInfo look at rows.Err().
NextFails ==
    /\ op \in LoopOps
    /\ ret' = IF ChecksRowsErr(op) THEN Ret(op, "rows", TRUE, <<>>)
              ELSE Ret(op, "nil", acc = <<>>, acc)
    /\ openCursors' = CursorsAtReturn(op, TRUE, openCursors)
    /\ op' = "returned"
    /\ rows' = <<>>
    /\ acc' = <<>>
    /\ UNCHANGED <<catalog, args, query, pkName>>
    /\ UNCHANGED <<asmVars, trVars>>

\* rows.Next() is false because every row was delivered: the cursor is
\* closed and the operation returns what it collected.
Drained ==
    /\ op \in LoopOps
    /\ rows = <<>>
    /\ ret' = Ret(op, "nil", IF op = "PrimaryKeyInfo" THEN FALSE ELSE acc = <<>>, acc)
    /\ openCursors' = CursorsAtReturn(op, TRUE, openCursors)
    /\ op' = "returned"
    /\ acc' = <<>>
    /\ UNCHANGED <<catalog, args, query, pkName, rows>>
    /\ UNCHANGED <<asmVars, trVars>>

\* The caller takes the result; the driver is ready for the next call.
TakeResult ==
    /\ op = "returned"
    /\ op' = "idle"
    /\ args' = NoArgs
    /\ query' = NoFilter
    /\ pkName' = ""
    /\ ret' = NoRet
    /\ UNCHANGED <<catalog, rows, acc, openCursors>>
    /\ UNCHANGED <<asmVars, trVars>>

-----------------------------------------------------------------------------
(* TranslateColumnType *)

\* The raw types the switch names (lines 350-377 and 384-411).
SwitchTypes ==
    { "tinyint", "smallint", "mediumint", "int", "bigint", "real", "float",
      "boolean", "bool", "bit", "date", "datetime", "datetime2", "smalldatetime",
      "time", "binary", "varbinary", "timestamp", "rowversion", "xml",
      "uniqueidentifier", "numeric", "decimal", "dec" }

\* Raw types the switch does not name, the empty string among them.
OtherTypes == { "", "nvarchar", "ntext", "money", "image", "BIGINT", "uuid" }

RawTypes == SwitchTypes \cup OtherTypes

\* A faulty variant of DefaultType: the default arm assigns nothing.
DefaultTypeMissing(nullable) == ""

\* The default arms, lines 379-380 and 413-414.
DefaultType(nullable) == IF nullable THEN "null.String" ELSE "string"

\* The switch of the nullable branch, lines 349-381.
NullableType(t) ==
    CASE t = "tinyint" -> "null.Int8"
      [] t = "smallint" -> "null.Int16"
      [] t = "mediumint" -> "null.Int32"
      [] t = "int" -> "null.Int"
      [] t = "bigint" -> "null.Int64"
      [] t = "real" -> "null.Float32"
      [] t = "float" -> "null.Float64"
      [] t \in {"boolean", "bool", "bit"} -> "null.Bool"
      [] t \in {"date", "datetime", "datetime2", "smalldatetime", "time"} -> "null.Time"
      [] t \in {"binary", "varbinary"} -> "null.Bytes"
      [] t \in {"timestamp", "rowversion"} -> "null.Bytes"
      [] t = "xml" -> "null.String"
      [] t = "uniqueidentifier" -> "null.String"
      [] t \in {"numeric", "decimal", "dec"} -> "types.NullDecimal"
      [] OTHER -> DefaultType(TRUE)

\* The switch of the non-nullable branch, lines 383-415.
NonNullType(t) ==
    CASE t = "tinyint" -> "int8"
      [] t = "smallint" -> "int16"
      [] t = "mediumint" -> "int32"
      [] t = "int" -> "int"
      [] t = "bigint" -> "int64"
      [] t = "real" -> "float32"
      [] t = "float" -> "float64"
      [] t \in {"boolean", "bool", "bit"} -> "bool"
      [] t \in {"date", "datetime", "datetime2", "smalldatetime", "time"} -> "time.Time"
      [] t \in {"binary", "varbinary"} -> "[]byte"
      [] t \in {"timestamp", "rowversion"} -> "[]byte"
      [] t = "xml" -> "string"
      [] t = "uniqueidentifier" -> "string"
      [] t \in {"numeric", "decimal", "dec"} -> "types.Decimal"
      [] OTHER -> DefaultType(FALSE)

\* TranslateColumnType, lines 347-419.
TranslateColumnType(c) ==
    [c EXCEPT !.Type = IF c.Nullable THEN NullableType(c.DBType) ELSE NonNullType(c.DBType),
              !.DBType = IF c.DBType = "uniqueidentifier" THEN "uuid" ELSE c.DBType]

\* The columns handed to TranslateColumnType: Type is not set yet.
InputColumns ==
    [ Name : {"c"}, FullDBType : {""}, DBType : RawTypes, Nullable : BOOLEAN,
      Unique : BOOLEAN, AutoGenerated : {FALSE}, Default : {""}, Type : {""} ]

InitTranslate ==
    /\ colIn \in InputColumns
    /\ colOut = colIn
    /\ translated = FALSE

Translate ==
    /\ ~translated
    /\ colOut' = TranslateColumnType(colIn)
    /\ translated' = TRUE
    /\ UNCHANGED colIn
    /\ UNCHANGED <<asmVars, intVars>>

TrIdle ==
    /\ colIn = [ Name |-> "", FullDBType |-> "", DBType |-> "", Nullable |-> FALSE,
                 Unique |-> FALSE, AutoGenerated |-> FALSE, Default |-> "", Type |-> "" ]
    /\ colOut = colIn
    /\ translated = TRUE

NextTranslate == Translate

AsmIdle ==
    /\ config = [dbname |-> "absent", host |-> "absent", schema |-> "absent"]
    /\ pc = "idle"
    /\ connStr = ""
    /\ conn = "nil"
    /\ opens = 0
    /\ closes = 0
    /\ dbinfo = NilDBInfo
    /\ err = "nil"
    /\ panicking = NoPanic
    /\ defers = <<>>
    /\ tablesRes = "none"
    /\ closeRes = "none"
    /\ outcome = "running"

IntIdle ==
    /\ catalog = [tables |-> {}, columns |-> {}, table_constraints |-> {},
                   key_column_usage |-> {}, referential_constraints |-> {}]
    /\ op = "off"
    /\ args = NoArgs
    /\ query = NoFilter
    /\ rows = <<>>
    /\ acc = <<>>
    /\ pkName = ""
    /\ ret = NoRet
    /\ openCursors = 0

NextIntrospect ==
    \/ CallTableNames
    \/ CallColumns
    \/ CallPrimaryKeyInfo
    \/ PrimaryKeyRowScan
    \/ CallForeignKeyInfo
    \/ ScanRow
    \/ ScanFails
    \/ NextFails
    \/ Drained
    \/ TakeResult

-----------------------------------------------------------------------------
(* The specifications *)

AssembleInit == InitAssemble /\ IntIdle /\ TrIdle

SpecAssemble == AssembleInit /\ [][NextAssemble]_vars

IntrospectInit == AsmIdle /\ InitIntrospect /\ TrIdle

SpecIntrospect == IntrospectInit /\ [][NextIntrospect]_vars

TranslateInit == AsmIdle /\ IntIdle /\ InitTranslate

SpecTranslate == TranslateInit /\ [][NextTranslate]_vars

-----------------------------------------------------------------------------
(* Properties of Assemble *)

\* Some callee raised a panic during this execution of Assemble.
PanicRaised ==
    \/ pc # "config" /\ MustStringPanics(config.dbname)
    \/ tablesRes = "panic"
    \/ closeRes = "panic"

\* C1: Assemble opens at most one connection; Close is never called more
\* often than Open succeeded, and once Assemble has ended (by returning or
\* by a panic leaving it) a connection that was opened has been closed
\* exactly once: no execution ends with an open connection.
C1_ConnectionReleased ==
    /\ opens <= 1
    /\ closes <= opens
    /\ conn = "open" => opens = 1 /\ closes = 0
    /\ pc = "done" => closes = opens /\ conn # "open"

\* C1 witness: drivers.Tables panicked after the open, Assemble has ended
\* and the connection was closed once.
C1_Witness ==
    pc = "done" /\ tablesRes = "panic" /\ opens = 1 /\ closes = 1 /\ conn = "closed"

\* C2 (as claimed): whenever a panic was raised during Assemble, whatever
\* its value and wherever it was raised, Assemble returns normally with a
\* non-nil error; no panic leaves Assemble.
C2_NoFaultEscapes ==
    (pc = "done" /\ PanicRaised) => (outcome = "returned" /\ err # "nil")

\* C3: whenever Assemble returns, a non-nil error comes with a nil snapshot,
\* and a non-nil snapshot comes with a nil error and has its Tables set.
C3_NoPartialSnapshot ==
    outcome = "returned" =>
        /\ err # "nil" => dbinfo = NilDBInfo
        /\ dbinfo # NilDBInfo => (err = "nil" /\ ~dbinfo.isNil /\ dbinfo.Tables = "assigned")

\* C3 witness: a panic struck while the snapshot was partial and the close
\* failed too; Assemble returned an error and no snapshot.
C3_Witness ==
    /\ outcome = "returned" /\ tablesRes = "panic" /\ closeRes = "err"
    /\ err # "nil" /\ dbinfo = NilDBInfo

\* C4: if drivers.Tables succeeded and the close then failed, Assemble
\* returns the close error and a nil snapshot.
C4_CloseErrorSupersedes ==
    (pc = "done" /\ tablesRes = "ok" /\ closeRes = "err") =>
        (outcome = "returned" /\ err = "close" /\ dbinfo = NilDBInfo)

\* C4 witness: the assembly succeeded, the close failed, Assemble returned.
C4_Witness ==
    outcome = "returned" /\ tablesRes = "ok" /\ closeRes = "err" /\ err = "close"

-----------------------------------------------------------------------------
(* Properties of the introspection calls *)

\* Operation o has returned and its result is in ret.
Returned(o) == op = "returned" /\ ret.op = o

\* Operation o is running or has just returned.
InCall(o) == op = o \/ Returned(o)

\* C5 (as claimed): when ForeignKeyInfo returns without error, every
\* foreign-key constraint of the queried table has exactly as many records
\* as it has column pairs (two for a composite key of two columns), each
\* with Table equal to the queried table.
C5_OneRecordPerColumnPair ==
    (Returned("ForeignKeyInfo") /\ ret.err = "nil") =>
        \A rc \in catalog.referential_constraints :
            LET pairs == { kcu \in catalog.key_column_usage :
                             /\ kcu.constraint_name = rc.constraint_name
                             /\ kcu.table_name = ret.table }
                recs == { i \in DOMAIN ret.val : ret.val[i].Name = rc.constraint_name }
            IN  /\ Cardinality(recs) = Cardinality(pairs)
                /\ \A i \in recs : ret.val[i].Table = ret.table

\* C6: when TableNames was given a non-empty whitelist and returns without
\* error, every name it returns is named by the whitelist, as a bare entry
\* or as the table portion of a table-scoped entry.
C6_OnlyWhitelistedTables ==
    (Returned("TableNames") /\ ret.err = "nil" /\ args.whitelist # <<>>) =>
        \A i \in DOMAIN ret.val :
            \E j \in DOMAIN args.whitelist : args.whitelist[j][1] = ret.val[i]

\* C6 witness: a whitelist of one table-scoped entry; TableNames returned
\* that entry's table and nothing else.
C6_Witness ==
    /\ Returned("TableNames") /\ ret.err = "nil"
    /\ args.whitelist = << <<"users", KeyCol(1)>> >>
    /\ ret.val = <<"users">>

\* C7: with a non-empty whitelist the filter clause and the arguments that
\* TableNames and Columns build are what they would be for any other
\* blacklist.
C7_BlacklistIgnored ==
    args.whitelist # <<>> =>
        /\ InCall("TableNames") =>
              \A b \in Lists : query = TableNamesQuery(args.whitelist, b)
        /\ InCall("Columns") =>
              \A b \in Lists : query = ColumnsQuery(args.table, args.whitelist, b)

\* C7 witness: Columns runs with a whitelist that names no column of the
\* table and a blacklist that names one; no clause was built.
C7_Witness ==
    /\ op = "Columns"
    /\ args.whitelist # <<>>
    /\ ColumnsFromList(args.whitelist, args.table) = <<>>
    /\ ColumnsFromList(args.blacklist, args.table) # <<>>
    /\ query.clause = ""

\* The catalog's row for column c of the table Columns was called for.
CatalogColumn(c) ==
    CHOOSE r \in catalog.columns : r.table_name = ret.table /\ r.column_name = c.Name

\* C8: in what Columns returns, a column is marked auto-generated exactly
\* when its raw type is timestamp or rowversion (in any letter case),
\* whatever its nullability and default; such a column has Default "auto"
\* when the catalog reports no default or the literal NULL, and the
\* catalog's default otherwise.
C8_TimestampAutoGenerated ==
    (Returned("Columns") /\ ret.err = "nil") =>
        \A i \in DOMAIN ret.val :
            LET c == ret.val[i]
                r == CatalogColumn(c)
                stamp == r.data_type \in {"timestamp", "rowversion", "TIMESTAMP"}
                noDefault == r.column_default.isNull \/ r.column_default.v = "NULL"
            IN  /\ c.AutoGenerated = stamp
                /\ (stamp /\ noDefault) => c.Default = "auto"
                /\ (stamp /\ ~noDefault) => c.Default = r.column_default.v

\* C8 witness: Columns returned a nullable rowversion column with an
\* explicit default, kept, and a timestamp column without default, "auto".
C8_Witness ==
    /\ Returned("Columns") /\ ret.err = "nil"
    /\ \E i \in DOMAIN ret.val :
          /\ ret.val[i].DBType = "rowversion" /\ ret.val[i].Nullable
          /\ ret.val[i].AutoGenerated /\ ret.val[i].Default = "getdate()"
    /\ \E i \in DOMAIN ret.val :
          /\ ret.val[i].DBType = "timestamp" /\ ~ret.val[i].Nullable
          /\ ret.val[i].AutoGenerated /\ ret.val[i].Default = "auto"

\* C10 (as claimed): no operation returns while a cursor it opened is still
\* open; between calls no cursor is open.
C10_CursorsReleased ==
    op \in {"idle", "returned"} => openCursors = 0

-----------------------------------------------------------------------------
(* Properties of TranslateColumnType *)

\* C9: TranslateColumnType returns a non-empty Type for every raw type and
\* nullability; a raw type the switch does not name, the empty string
\* included, gets "string" or "null.String", and bigint gets "int64" or
\* "null.Int64".
C9_TranslateTotal ==
    translated =>
        /\ colOut.Type # ""
        /\ colIn.DBType \notin SwitchTypes =>
              colOut.Type = (IF colIn.Nullable THEN "null.String" ELSE "string")
        /\ colIn.DBType = "bigint" =>
              colOut.Type = (IF colIn.Nullable THEN "null.Int64" ELSE "int64")

\* C9 witness: the empty raw type, nullable, was translated to null.String.
C9_Witness ==
    translated /\ colIn.DBType = "" /\ colIn.Nullable /\ colOut.Type = "null.String"

=============================================================================
